---- MODULE Spec2Model ----
(***************************************************************************)
(* Metin2-X-API: the access guard (bearer token, account status, GM        *)
(* authority level), the login route and the legacy password hasher,       *)
(* modelled from src/app.                                                  *)
(*                                                                         *)
(* A table is a set of rows; Model.filter(...).first() is the set of the   *)
(* rows that match (empty, or one row: the tables are keyed by login).     *)
(* One action is one HTTP request with all its dependencies, or one        *)
(* out-of-band change to the legacy game databases.                        *)
(*                                                                         *)
(* Spec, SpecLevels, SpecContent, SpecPages and SpecAccount take requests  *)
(* one at a time. SpecRace, SpecImages and SpecFailures run handlers side  *)
(* by side, one database or filesystem operation per step, with the unique *)
(* indexes the models declare, process deaths between steps, and failing   *)
(* commits. SpecListing and SpecHasher call pure functions on their own.   *)
(***************************************************************************)
EXTENDS Integers, Sequences, FiniteSets, TLC

VARIABLES
    accounts,   \* table account.account: rows [login, password, email, status]
    gmlist,     \* table common.gmlist: rows [mAccount, mAuthority]
    tokens,     \* logins for which login_for_access_token has issued a token
    resp,       \* the request being answered and what it ended as
    probe,      \* the last call of AuthorityLevel.can_access made directly
    revoked,    \* history: logins whose grant was last removed or lowered
    sites,      \* table sites: rows [id, slug, is_active, maintenance_mode]
    downloads,  \* table downloads: rows [id, published, site_id]
    pages,      \* table pages: rows [id, slug, published, site_id]
    images,     \* table images: rows [id, filename, original_filename, file_path, site_id]
    files,      \* paths of the files in the filesystem
    next_id,    \* the autoincrement counters, and the count of generated file names
    calls       \* requests running step by step: where each is, what it holds

auth == <<accounts, gmlist, tokens, probe, revoked, calls>>

content == <<sites, downloads, pages, images, files, next_id>>

vars == <<accounts, gmlist, tokens, resp, probe, revoked,
          sites, downloads, pages, images, files, next_id, calls>>

----------------------------------------------------------------------------
(* Bounds and input sets *)

\* Rows the content routes insert, all tables together, after the first site.
MaxRows == 1

\* Files written to the upload directory.
MaxFiles == 2

\* Rows the handlers running side by side insert, all tables together.
MaxRaceRows == 2

\* The largest row count a listing finds.
MaxTotal == 45

Logins == {"gm_bob", "alice"}

Passwords == {"pw1", "pw2"}

\* The password a registration of the guard specification supplies.
RegPasswords == {"pw1"}

\* Each person registers with an address of their own.
EmailOf == [l \in Logins |-> IF l = "gm_bob" THEN "bob@mt2" ELSE "alice@mt2"]

\* Values found in account.status: the two the model knows and a foreign one.
Statuses == {"OK", "BANNED", "QUIT"}

----------------------------------------------------------------------------
(* app/core/hashers.py *)

HexUpper ==
    [c \in {"0","1","2","3","4","5","6","7","8","9","a","b","c","d","e","f"} |->
        CASE c = "a" -> "A" [] c = "b" -> "B" [] c = "c" -> "C"
          [] c = "d" -> "D" [] c = "e" -> "E" [] c = "f" -> "F"
          [] OTHER -> c]

\* str.upper() on a string of '*' and lowercase hex digits.
upper(s) == [i \in 1..Len(s) |-> IF s[i] \in DOMAIN HexUpper THEN HexUpper[s[i]] ELSE s[i]]

\* sha1(sha1(raw.encode()).digest()).hexdigest(): the digests of the passwords
\* of the model, as hashlib computes them.
sha1_sha1_hexdigest(raw) ==
    CASE raw = "pw1" ->
           <<"2","b","6","0","2","2","9","6","a","7","9","e","0","a","8","7","8","4","a","c",
             "c","5","c","8","8","d","9","2","e","4","6","5","8","8","c","c","a","3","c","3">>
      [] raw = "pw2" ->
           <<"b","2","7","9","1","8","d","2","d","9","4","0","2","8","8","2","c","e","a","d",
             "a","0","e","f","6","8","7","d","3","5","f","b","d","c","1","3","7","d","7","2">>

      [] raw = "" ->
           <<"b","e","1","b","d","e","c","0","a","a","7","4","b","4","d","c","b","0","7","9",
             "9","4","3","e","7","0","5","2","8","0","9","6","c","c","a","9","8","5","f","8">>
      [] raw = "PW1" ->
           <<"7","b","a","9","d","5","e","9","7","3","f","9","2","a","2","7","d","c","a","f",
             "1","6","f","a","e","1","3","f","d","1","d","4","5","9","f","2","4","2","d","c">>

\* None as raw_password (not a string of the model), and the None that
\* make_password returns for it.
NoRawPassword == "<None>"

NoDigest == <<>>

\* A make_password that gives every password the same digest.
make_password_constant(raw_password) ==
    IF raw_password = NoRawPassword THEN NoDigest
    ELSE upper(<<"*">> \o sha1_sha1_hexdigest("pw1"))

\* A make_password without the call of upper().
make_password_lowercase(raw_password) ==
    IF raw_password = NoRawPassword THEN NoDigest
    ELSE <<"*">> \o sha1_sha1_hexdigest(raw_password)

make_password(raw_password) ==
    IF raw_password = NoRawPassword THEN NoDigest
    ELSE upper(<<"*">> \o sha1_sha1_hexdigest(raw_password))

validate_password(mysql_hash, raw_password) ==
    mysql_hash = make_password(raw_password)

----------------------------------------------------------------------------
(* app/core/security.py: AuthorityLevel *)

AuthorityLevel ==
    {"PLAYABLE", "PLAYER", "LOW_WIZARD", "HIGH_WIZARD", "GOD", "IMPLEMENTOR"}

hierarchy_map ==
    [level \in AuthorityLevel |->
        CASE level = "PLAYABLE"    -> 0
          [] level = "PLAYER"      -> 1
          [] level = "LOW_WIZARD"  -> 2
          [] level = "HIGH_WIZARD" -> 3
          [] level = "GOD"         -> 4
          [] level = "IMPLEMENTOR" -> 5]

\* Mutant: an unknown level takes the top rank.
get_hierarchy_value_fail_open(level) ==
    IF level \in DOMAIN hierarchy_map THEN hierarchy_map[level] ELSE 5

\* hierarchy_map.get(level, 0)
get_hierarchy_value(level) ==
    IF level \in DOMAIN hierarchy_map THEN hierarchy_map[level] ELSE 0

\* Mutant: a strict comparison.
can_access_strict(user_level, required_level) ==
    get_hierarchy_value(user_level) > get_hierarchy_value(required_level)

can_access(user_level, required_level) ==
    get_hierarchy_value(user_level) >= get_hierarchy_value(required_level)

\* What gmlist.mAuthority can hold: the column is filled by the game server,
\* not by this API. "god" is a name in the wrong case, "int:5" stands for the
\* integer 5 (the column is declared Integer; no integer is a key of the map).
StoredAuthority == AuthorityLevel \cup {"god", "int:5"}

\* The levels deps.py declares a ranked guard for.
RequiredLevels == {"IMPLEMENTOR", "HIGH_WIZARD", "GOD", "LOW_WIZARD", "PLAYER"}

----------------------------------------------------------------------------
(* app/crud/account.py *)

\* Account.filter(Account.login == login).first()
get_by_login(login) == {a \in accounts : a.login = login}

\* Account.filter(Account.email == email).first()
get_by_email(email) == {a \in accounts : a.email = email}

\* StatusType.OK. deps.py and crud/account.py import StatusType from
\* app.models.account, whose class is not part of the sources at hand.
StatusType_OK == "OK"

is_active(account) == account.status = StatusType_OK

\* Mutant: the status of the account is not looked at.
authenticate_any_status(login, password) ==
    {a \in get_by_login(login) : validate_password(a.password, password)}

\* The rows authenticate returns: the account, or nothing.
authenticate(login, password) ==
    {a \in get_by_login(login) :
        validate_password(a.password, password) /\ is_active(a)}

\* CRUDAccount.create: the row Account(...).save() inserts; status is not
\* passed and takes the column default.
new_account(login, password, email) ==
    [login |-> login, password |-> make_password(password),
     email |-> email, status |-> "OK"]

----------------------------------------------------------------------------
(* app/crud/common.py *)

\* Mutant: the filter on mAccount is lost.
get_gm_by_account_any(account_login) == gmlist

\* GMList.filter(GMList.mAccount == account_login).first()
get_gm_by_account(account_login) == {g \in gmlist : g.mAccount = account_login}

is_admin(account_login) == get_gm_by_account(account_login) # {}

\* Mutant: a login without a record is given PLAYER.
get_admin_level_default_player(account_login) ==
    LET gm_record == get_gm_by_account(account_login) IN
    IF gm_record # {} THEN (CHOOSE g \in gm_record : TRUE).mAuthority
    ELSE "PLAYER"

get_admin_level(account_login) ==
    LET gm_record == get_gm_by_account(account_login) IN
    IF gm_record # {} THEN (CHOOSE g \in gm_record : TRUE).mAuthority
    ELSE "PLAYABLE"

----------------------------------------------------------------------------
(* app/api/deps.py *)

\* A bearer credential as a request presents it. kind: "missing" (no
\* Authorization header), "garbage" (not a token signed with SECRET_KEY),
\* "expired" (signed, exp in the past), "nosub" (signed, no sub claim),
\* "valid" (signed, unexpired, sub = the login it was issued to).
NoSub == ""

Credentials ==
    {[kind |-> k, sub |-> NoSub] : k \in {"missing", "garbage", "nosub"}}
        \cup {[kind |-> k, sub |-> s] : k \in {"valid", "expired"}, s \in tokens}

\* What a dependency chain ends as: code 0 while it has not rejected,
\* the account get_current_account found, the level get_admin_level
\* returned ("" when it was not called) and the calls made, in order.
Outcome(code, account, admin_level, steps) ==
    [code |-> code, account |-> account, admin_level |-> admin_level, steps |-> steps]

\* security = HTTPBearer(): without credentials the scheme itself rejects
\* and no dependency below it runs. The status it answers with is the
\* framework's: 403 in the releases that predate the change to 401.
HTTPBearer_reject_codes == {401, 403}

\* jose.jwt.decode: a JWTError for a bad signature or a passed exp,
\* else the payload's sub (NoSub when payload.get("sub") is None).
jwt_decode(token) ==
    IF token.kind \in {"garbage", "expired"}
    THEN [error |-> TRUE, sub |-> NoSub]
    ELSE [error |-> FALSE, sub |-> IF token.kind = "nosub" THEN NoSub ELSE token.sub]

\* Mutant: a token is bound to the digest stored when it was issued, the
\* one of the first password.
get_current_account_password_bound(token) ==
    LET payload == jwt_decode(token) IN
    IF payload.error \/ payload.sub = NoSub
    THEN Outcome(401, {}, "", <<"jwt.decode">>)
    ELSE LET db_account == {a \in get_by_login(payload.sub) :
                                a.password = make_password("pw1")}
         IN  IF db_account = {}
             THEN Outcome(401, {}, "", <<"jwt.decode", "get_by_login">>)
             ELSE Outcome(0, db_account, "", <<"jwt.decode", "get_by_login">>)

get_current_account(token) ==
    LET payload == jwt_decode(token) IN
    IF payload.error \/ payload.sub = NoSub
    THEN Outcome(401, {}, "", <<"jwt.decode">>)
    ELSE LET db_account == get_by_login(payload.sub) IN
         IF db_account = {}
         THEN Outcome(401, {}, "", <<"jwt.decode", "get_by_login">>)
         ELSE Outcome(0, db_account, "", <<"jwt.decode", "get_by_login">>)

\* Mutant: only BANNED is rejected.
get_current_active_account_banned_only(token) ==
    LET cur == get_current_account(token) IN
    IF cur.code # 0 THEN cur
    ELSE LET current_account == CHOOSE a \in cur.account : TRUE
             steps == Append(cur.steps, "status")
         IN  IF current_account.status = "BANNED"
             THEN Outcome(400, cur.account, "", steps)
             ELSE Outcome(0, cur.account, "", steps)

get_current_active_account(token) ==
    LET cur == get_current_account(token) IN
    IF cur.code # 0 THEN cur
    ELSE LET current_account == CHOOSE a \in cur.account : TRUE
             steps == Append(cur.steps, "status")
         IN  IF current_account.status # StatusType_OK
             THEN Outcome(400, cur.account, "", steps)
             ELSE Outcome(0, cur.account, "", steps)

\* Mutant: the check of the deprecated guard, any record admits.
authority_checker_any_record(required_level, token) ==
    LET cur == get_current_account(token) IN
    IF cur.code # 0 THEN cur
    ELSE LET current_account == CHOOSE a \in cur.account : TRUE
             admin_level == get_admin_level(current_account.login)
             steps == cur.steps \o <<"get_admin_level", "can_access">>
         IN  IF ~is_admin(current_account.login)
             THEN Outcome(403, cur.account, admin_level, steps)
             ELSE Outcome(0, cur.account, admin_level, steps)

\* require_gm_level(required_level) -> authority_checker
authority_checker(required_level, token) ==
    LET cur == get_current_account(token) IN
    IF cur.code # 0 THEN cur
    ELSE LET current_account == CHOOSE a \in cur.account : TRUE
             admin_level == get_admin_level(current_account.login)
             steps == cur.steps \o <<"get_admin_level", "can_access">>
         IN  IF ~can_access(admin_level, required_level)
             THEN Outcome(403, cur.account, admin_level, steps)
             ELSE Outcome(0, cur.account, admin_level, steps)

\* Mutant: the deprecated guard asks for the highest rank.
require_admin_account_ranked(token) == authority_checker("IMPLEMENTOR", token)

\* require_admin_account (deprecated): any row of gmlist for the login.
require_admin_account(token) ==
    LET cur == get_current_account(token) IN
    IF cur.code # 0 THEN cur
    ELSE LET current_account == CHOOSE a \in cur.account : TRUE
             steps == Append(cur.steps, "is_admin")
         IN  IF ~is_admin(current_account.login)
             THEN Outcome(403, cur.account, "", steps)
             ELSE Outcome(0, cur.account, "", steps)

\* Depends(security) in front of a dependency chain: the outcomes the
\* chain `dep` can have for the credential.
with_bearer(token, dep) ==
    IF token.kind = "missing"
    THEN {Outcome(c, {}, "", <<>>) : c \in HTTPBearer_reject_codes}
    ELSE {dep}

\* The route handler runs when no dependency has rejected.
handled(out, status_code) ==
    IF out.code # 0 THEN out
    ELSE [out EXCEPT !.code = status_code, !.steps = Append(out.steps, "handler")]

----------------------------------------------------------------------------
(* Requests *)
(* A request is one atomic step that leaves its record in resp; Reply     *)
(* sends the response and clears it. Nothing else happens in between, so  *)
(* while resp is set the tables are as the request left them.             *)

NoToken == [kind |-> "none", sub |-> NoSub]

\* The record of a request: the route, the level its guard requires, the
\* credential or login form it carried, the status it ended with, what
\* the dependencies found, and the subject of the token it returned.
\* The body of a request that is not kept.
NoBody == [kind |-> "none"]

Response(op, required, token, password, out, access_token) ==
    [op |-> op, required |-> required, token |-> token, password |-> password,
     code |-> out.code, account |-> out.account, admin_level |-> out.admin_level,
     steps |-> out.steps, access_token |-> access_token, body |-> NoBody]

NoResponse ==
    Response("none", "", NoToken, "", Outcome(0, {}, "", <<>>), NoSub)

Idle == resp = NoResponse

Reply ==
    /\ ~Idle
    /\ resp' = NoResponse
    /\ UNCHANGED <<accounts, gmlist, tokens, probe, revoked, content, calls>>

\* POST /account/register (app/api/routes/account.py: create_account)
create_account(login, password, email) ==
    /\ Idle
    /\ IF get_by_login(login) # {} \/ get_by_email(email) # {}
       THEN /\ resp' = Response("register", "", [kind |-> "form", sub |-> login],
                                password, Outcome(400, {}, "", <<>>), NoSub)
            /\ UNCHANGED accounts
       ELSE LET db_obj == new_account(login, password, email) IN
            /\ accounts' = accounts \cup {db_obj}
            /\ resp' = Response("register", "", [kind |-> "form", sub |-> login],
                                password, Outcome(200, {db_obj}, "", <<>>), NoSub)
    /\ UNCHANGED <<gmlist, tokens, probe, revoked, content, calls>>

\* POST /account/token (login_for_access_token)
login_for_access_token(username, password) ==
    LET db_account == authenticate(username, password)
        form == [kind |-> "form", sub |-> username]
    IN  /\ Idle
        /\ IF db_account = {}
           THEN /\ resp' = Response("login", "", form, password,
                                    Outcome(401, {}, "", <<>>), NoSub)
                /\ UNCHANGED tokens
           ELSE LET sub == (CHOOSE a \in db_account : TRUE).login IN
                /\ tokens' = tokens \cup {sub}
                /\ resp' = Response("login", "", form, password,
                                    Outcome(200, db_account, "", <<>>), sub)
        /\ UNCHANGED <<accounts, gmlist, probe, revoked, content, calls>>

\* GET /account/me (read_account_me): CurrentAccountDependency
read_account_me(token) ==
    /\ Idle
    /\ \E out \in with_bearer(token, get_current_active_account(token)) :
          resp' = Response("me", "", token, "", handled(out, 200), NoSub)
    /\ UNCHANGED <<accounts, gmlist, tokens, probe, revoked, content, calls>>

\* A route declared with Depends(require_gm_level(required_level)).
ranked_route(required_level, token) ==
    /\ Idle
    /\ \E out \in with_bearer(token, authority_checker(required_level, token)) :
          resp' = Response("ranked", required_level, token, "", handled(out, 200), NoSub)
    /\ UNCHANGED <<accounts, gmlist, tokens, probe, revoked, content, calls>>

\* A route declared with RequireAuthorityLevel, the deprecated dependency.
admin_route(token) ==
    /\ Idle
    /\ \E out \in with_bearer(token, require_admin_account(token)) :
          resp' = Response("admin", "", token, "", handled(out, 200), NoSub)
    /\ UNCHANGED <<accounts, gmlist, tokens, probe, revoked, content, calls>>

\* Mutant: the old password is not asked for.
update_password_unverified(login, old_password) == get_by_login(login)

\* account.authenticate(login=current_account.login, password=old_password)
update_password_authenticate(login, old_password) == authenticate(login, old_password)

\* CRUDAccount.update_password: the row db_obj.save() writes.
update_password(db_obj, new_password) ==
    [db_obj EXCEPT !.password = make_password(new_password)]

\* PUT /account/me/password (update_password_account_me)
update_password_account_me(token, old_password, new_password) ==
    /\ Idle
    /\ \E out \in with_bearer(token, get_current_active_account(token)) :
          LET body == [kind |-> "password", new_password |-> new_password]
              ends(o) == resp' = [Response("update_password", "", token, old_password,
                                           o, NoSub) EXCEPT !.body = body]
          IN  IF out.code # 0
              THEN /\ ends(out)
                   /\ UNCHANGED accounts
              ELSE LET current_account == CHOOSE a \in out.account : TRUE
                       acc == update_password_authenticate(current_account.login,
                                                           old_password)
                   IN  IF acc = {}
                       THEN /\ ends(handled(out, 401))
                            /\ UNCHANGED accounts
                       ELSE /\ accounts' = (accounts \ acc)
                                   \cup {update_password(a, new_password) : a \in acc}
                            /\ ends(handled(out, 200))
    /\ UNCHANGED <<gmlist, tokens, probe, revoked, content, calls>>

----------------------------------------------------------------------------
(* Changes made outside this API: the game server and its operators own  *)
(* the account and common databases.                                     *)

SetStatus(login, status) ==
    /\ Idle
    /\ \E a \in get_by_login(login) :
          /\ a.status # status
          /\ accounts' = (accounts \ {a}) \cup {[a EXCEPT !.status = status]}
    /\ UNCHANGED <<gmlist, tokens, resp, probe, revoked, content, calls>>

DeleteAccount(login) ==
    /\ Idle
    /\ get_by_login(login) # {}
    /\ accounts' = accounts \ get_by_login(login)
    /\ UNCHANGED <<gmlist, tokens, resp, probe, revoked, content, calls>>

GrantGM(login, level) ==
    /\ Idle
    /\ get_gm_by_account(login) = {}
    /\ gmlist' = gmlist \cup {[mAccount |-> login, mAuthority |-> level]}
    /\ revoked' = revoked \ {login}
    /\ UNCHANGED <<accounts, tokens, resp, probe, content, calls>>

SetGMLevel(login, level) ==
    /\ Idle
    /\ \E g \in get_gm_by_account(login) :
          /\ g.mAuthority # level
          /\ gmlist' = (gmlist \ {g}) \cup {[g EXCEPT !.mAuthority = level]}
          /\ revoked' = IF get_hierarchy_value(level) < get_hierarchy_value(g.mAuthority)
                        THEN revoked \cup {login}
                        ELSE revoked \ {login}
    /\ UNCHANGED <<accounts, tokens, resp, probe, content, calls>>

RevokeGM(login) ==
    /\ Idle
    /\ get_gm_by_account(login) # {}
    /\ gmlist' = gmlist \ get_gm_by_account(login)
    /\ revoked' = revoked \cup {login}
    /\ UNCHANGED <<accounts, tokens, resp, probe, content, calls>>

----------------------------------------------------------------------------
(* AuthorityLevel.can_access called on its own *)

NoProbe ==
    [called |-> FALSE, user_level |-> "", required_level |-> "", lower_level |-> "",
     rank |-> 0, result |-> FALSE, result_lower |-> FALSE]

CanAccessCall(a, b, c) ==
    /\ ~probe.called
    /\ probe' = [called |-> TRUE, user_level |-> a, required_level |-> b,
                 lower_level |-> c, rank |-> get_hierarchy_value(a),
                 result |-> can_access(a, b), result_lower |-> can_access(a, c)]
    /\ UNCHANGED <<accounts, gmlist, tokens, resp, revoked, content, calls>>

----------------------------------------------------------------------------
(* The content routes of app/api/routes/game.py: sites and downloads *)

\* No id: the value of an exclude_id that is not given.
NoId == 0

Slugs == {"home", "news"}

\* The counters once the first site is there.
first_ids == [sites |-> 2, downloads |-> 1, pages |-> 1, images |-> 1, files |-> 1]

\* The ids a request names in its path or its body.
IdInputs == {1, 2}

\* The rows inserted after the first site.
rows_inserted ==
    (next_id.sites - first_ids.sites) + (next_id.downloads - first_ids.downloads)
        + (next_id.pages - first_ids.pages) + (next_id.images - first_ids.images)

CanInsert == rows_inserted < MaxRows

\* The guard the content routes import from app.api.deps.
require_gm_level_implementor == "IMPLEMENTOR"

\* The outcomes of the dependency "_: require_gm_level_implementor".
guard_implementor(token) ==
    with_bearer(token, authority_checker(require_gm_level_implementor, token))

\* The response of a content route that ended with status_code, or earlier
\* with the code of its guard.
answer(op, token, out, status_code) ==
    resp' = Response(op, require_gm_level_implementor, token, "",
                     handled(out, status_code), NoSub)

\* The same, with the body the handler was given.
answer_body(op, token, out, status_code, body) ==
    resp' = [Response(op, require_gm_level_implementor, token, "",
                      handled(out, status_code), NoSub) EXCEPT !.body = body]

\* The guard has raised: the handler is not called.
refused(op, token, out) ==
    /\ out.code # 0
    /\ answer(op, token, out, 0)
    /\ UNCHANGED content

\* for field, value in update_data.items(): setattr(db_obj, field, value)
setattrs(db_obj, update_data) ==
    [f \in DOMAIN db_obj |->
        IF f \in DOMAIN update_data THEN update_data[f] ELSE db_obj[f]]

\* CRUDSite.get
site_get(id) == {s \in sites : s.id = id}

\* CRUDSite.slug_exists
site_slug_exists(slug, exclude_id) ==
    \E s \in sites : s.slug = slug /\ (exclude_id # NoId => s.id # exclude_id)

\* The unique index of sites.slug: the table, holding `rows', takes `row'.
Site_slug_unique(rows, row) ==
    \A s \in rows : s.id # row.id => s.slug # row.slug

SiteCreates ==
    {[slug |-> s, is_active |-> TRUE, maintenance_mode |-> FALSE] : s \in Slugs}

SiteUpdates == {[slug |-> s] : s \in Slugs}

\* A handler that fetches the site, answers 404 without it, and otherwise
\* saves it with the fields of update_data set.
site_patch(op, token, site_id, update_data) ==
    /\ Idle
    /\ \E out \in guard_implementor(token) :
          \/ refused(op, token, out)
          \/ /\ out.code = 0
             /\ LET db_site == site_get(site_id) IN
                IF db_site = {}
                THEN /\ answer(op, token, out, 404)
                     /\ UNCHANGED content
                ELSE /\ sites' = (sites \ db_site)
                           \cup {setattrs(s, update_data) : s \in db_site}
                     /\ answer(op, token, out, 200)
                     /\ UNCHANGED <<downloads, pages, images, files, next_id>>
    /\ UNCHANGED auth

\* The Site row crud.create builds from obj_in, with the id the table gives.
new_site(id, obj_in) ==
    [id |-> id, slug |-> obj_in.slug, is_active |-> obj_in.is_active,
     maintenance_mode |-> obj_in.maintenance_mode]

\* A create_site that inserts whatever it is given.
create_site_unchecked(token, obj_in) ==
    /\ Idle
    /\ CanInsert
    /\ \E out \in guard_implementor(token) :
          \/ refused("create_site", token, out)
          \/ /\ out.code = 0
             /\ sites' = sites \cup {new_site(next_id.sites, obj_in)}
             /\ next_id' = [next_id EXCEPT !.sites = @ + 1]
             /\ answer_body("create_site", token, out, 200, obj_in)
             /\ UNCHANGED <<downloads, pages, images, files>>
    /\ UNCHANGED auth

\* POST /sites.  slug_exists raises ValueError; so does save() when the
\* unique index refuses the row; the route turns both into 400.
create_site(token, obj_in) ==
    /\ Idle
    /\ CanInsert \/ site_slug_exists(obj_in.slug, NoId)
    /\ \E out \in guard_implementor(token) :
          \/ refused("create_site", token, out)
          \/ /\ out.code = 0
             /\ IF \/ site_slug_exists(obj_in.slug, NoId)
                   \/ ~Site_slug_unique(sites, new_site(next_id.sites, obj_in))
                THEN /\ answer_body("create_site", token, out, 400, obj_in)
                     /\ UNCHANGED content
                ELSE /\ sites' = sites \cup {new_site(next_id.sites, obj_in)}
                     /\ next_id' = [next_id EXCEPT !.sites = @ + 1]
                     /\ answer_body("create_site", token, out, 200, obj_in)
                     /\ UNCHANGED <<downloads, pages, images, files>>
    /\ UNCHANGED auth

\* PUT /sites/{site_id}
update_site(token, site_id, site_update) ==
    /\ Idle
    /\ \E out \in guard_implementor(token) :
          \/ refused("update_site", token, out)
          \/ /\ out.code = 0
             /\ LET db_site == site_get(site_id) IN
                IF db_site = {}
                THEN /\ answer("update_site", token, out, 404)
                     /\ UNCHANGED content
                ELSE IF /\ "slug" \in DOMAIN site_update
                        /\ site_slug_exists(site_update.slug, site_id)
                THEN /\ answer("update_site", token, out, 400)
                     /\ UNCHANGED content
                ELSE /\ sites' = (sites \ db_site)
                           \cup {setattrs(s, site_update) : s \in db_site}
                     /\ answer("update_site", token, out, 200)
                     /\ UNCHANGED <<downloads, pages, images, files, next_id>>
    /\ UNCHANGED auth

\* PATCH /sites/{site_id}/activate
activate_site(token, site_id) ==
    site_patch("activate_site", token, site_id, [is_active |-> TRUE])

\* PATCH /sites/{site_id}/deactivate
deactivate_site(token, site_id) ==
    site_patch("deactivate_site", token, site_id, [is_active |-> FALSE])

\* PATCH /sites/{site_id}/maintenance/enable
enable_maintenance_mode(token, site_id) ==
    site_patch("enable_maintenance_mode", token, site_id, [maintenance_mode |-> TRUE])

\* PATCH /sites/{site_id}/maintenance/disable
disable_maintenance_mode(token, site_id) ==
    site_patch("disable_maintenance_mode", token, site_id, [maintenance_mode |-> FALSE])

\* Mutant: the route is declared without its guard.
delete_site_unguarded(token, site_id) ==
    /\ Idle
    /\ LET db_site == site_get(site_id)
           out == Outcome(0, {}, "", <<>>)
       IN  IF db_site = {}
           THEN /\ answer("delete_site", token, out, 404)
                /\ UNCHANGED content
           ELSE /\ sites' = sites \ db_site
                /\ downloads' = {d \in downloads : d.site_id # site_id}
                /\ answer("delete_site", token, out, 200)
                /\ UNCHANGED <<pages, images, files, next_id>>
    /\ UNCHANGED auth

\* DELETE /sites/{site_id}: the row goes, and with it its downloads
\* (Site.downloads is cascade="all, delete-orphan").
delete_site(token, site_id) ==
    /\ Idle
    /\ \E out \in guard_implementor(token) :
          \/ refused("delete_site", token, out)
          \/ /\ out.code = 0
             /\ LET db_site == site_get(site_id) IN
                IF db_site = {}
                THEN /\ answer("delete_site", token, out, 404)
                     /\ UNCHANGED content
                ELSE /\ sites' = sites \ db_site
                     /\ downloads' = {d \in downloads : d.site_id # site_id}
                     /\ answer("delete_site", token, out, 200)
                     /\ UNCHANGED <<pages, images, files, next_id>>
    /\ UNCHANGED auth

\* CRUDDownload.get
download_get(id) == {d \in downloads : d.id = id}

DownloadCreates == {[published |-> FALSE, site_id |-> i] : i \in IdInputs}

DownloadUpdates == {[site_id |-> i] : i \in IdInputs}

\* A handler that fetches the download, answers 404 without it, and
\* otherwise saves it with published set.
download_patch(op, token, download_id, published) ==
    /\ Idle
    /\ \E out \in guard_implementor(token) :
          \/ refused(op, token, out)
          \/ /\ out.code = 0
             /\ LET db_download == download_get(download_id) IN
                IF db_download = {}
                THEN /\ answer(op, token, out, 404)
                     /\ UNCHANGED content
                ELSE /\ downloads' = (downloads \ db_download)
                           \cup {[d EXCEPT !.published = published] : d \in db_download}
                     /\ answer(op, token, out, 200)
                     /\ UNCHANGED <<sites, pages, images, files, next_id>>
    /\ UNCHANGED auth

\* POST /downloads
create_download(token, obj_in) ==
    /\ Idle
    /\ CanInsert
    /\ \E out \in guard_implementor(token) :
          \/ refused("create_download", token, out)
          \/ /\ out.code = 0
             /\ IF site_get(obj_in.site_id) = {}
                THEN /\ answer("create_download", token, out, 400)
                     /\ UNCHANGED content
                ELSE /\ downloads' = downloads \cup
                           {[id |-> next_id.downloads, published |-> obj_in.published,
                             site_id |-> obj_in.site_id]}
                     /\ next_id' = [next_id EXCEPT !.downloads = @ + 1]
                     /\ answer("create_download", token, out, 200)
                     /\ UNCHANGED <<sites, pages, images, files>>
    /\ UNCHANGED auth

\* PUT /downloads/{download_id}
update_download(token, download_id, download_update) ==
    /\ Idle
    /\ \E out \in guard_implementor(token) :
          \/ refused("update_download", token, out)
          \/ /\ out.code = 0
             /\ LET db_download == download_get(download_id) IN
                IF db_download = {}
                THEN /\ answer("update_download", token, out, 404)
                     /\ UNCHANGED content
                ELSE IF /\ "site_id" \in DOMAIN download_update
                        /\ site_get(download_update.site_id) = {}
                THEN /\ answer("update_download", token, out, 400)
                     /\ UNCHANGED content
                ELSE /\ downloads' = (downloads \ db_download)
                           \cup {setattrs(d, download_update) : d \in db_download}
                     /\ answer("update_download", token, out, 200)
                     /\ UNCHANGED <<sites, pages, images, files, next_id>>
    /\ UNCHANGED auth

\* PATCH /downloads/{download_id}/publish
publish_download(token, download_id) ==
    download_patch("publish_download", token, download_id, TRUE)

\* PATCH /downloads/{download_id}/unpublish
unpublish_download(token, download_id) ==
    download_patch("unpublish_download", token, download_id, FALSE)

\* DELETE /downloads/{download_id}
delete_download(token, download_id) ==
    /\ Idle
    /\ \E out \in guard_implementor(token) :
          \/ refused("delete_download", token, out)
          \/ /\ out.code = 0
             /\ LET db_download == download_get(download_id) IN
                IF db_download = {}
                THEN /\ answer("delete_download", token, out, 404)
                     /\ UNCHANGED content
                ELSE /\ downloads' = downloads \ db_download
                     /\ answer("delete_download", token, out, 200)
                     /\ UNCHANGED <<sites, pages, images, files, next_id>>
    /\ UNCHANGED auth

----------------------------------------------------------------------------
(* The content routes: pages and images *)

\* CRUDPage.get
page_get(id) == {q \in pages : q.id = id}

\* CRUDPage.slug_exists
page_slug_exists(slug, exclude_id) ==
    \E q \in pages : q.slug = slug /\ (exclude_id # NoId => q.id # exclude_id)

PageCreates ==
    {[slug |-> s, published |-> FALSE, site_id |-> i] : s \in Slugs, i \in IdInputs}

PageUpdates == {[slug |-> s] : s \in Slugs}

\* A handler that fetches the page, answers 404 without it, and otherwise
\* saves it with published set.
page_patch(op, token, page_id, published) ==
    /\ Idle
    /\ \E out \in guard_implementor(token) :
          \/ refused(op, token, out)
          \/ /\ out.code = 0
             /\ LET db_page == page_get(page_id) IN
                IF db_page = {}
                THEN /\ answer(op, token, out, 404)
                     /\ UNCHANGED content
                ELSE /\ pages' = (pages \ db_page)
                           \cup {[q EXCEPT !.published = published] : q \in db_page}
                     /\ answer(op, token, out, 200)
                     /\ UNCHANGED <<sites, downloads, images, files, next_id>>
    /\ UNCHANGED auth

\* POST /pages: the HTTPException(400) of the slug check is raised inside
\* the try block and leaves it through "except Exception" as a 500.
create_page(token, page) ==
    /\ Idle
    /\ CanInsert \/ page_slug_exists(page.slug, NoId)
    /\ \E out \in guard_implementor(token) :
          \/ refused("create_page", token, out)
          \/ /\ out.code = 0
             /\ IF page_slug_exists(page.slug, NoId)
                THEN /\ answer("create_page", token, out, 500)
                     /\ UNCHANGED content
                ELSE /\ pages' = pages \cup
                           {[id |-> next_id.pages, slug |-> page.slug,
                             published |-> page.published, site_id |-> page.site_id]}
                     /\ next_id' = [next_id EXCEPT !.pages = @ + 1]
                     /\ answer("create_page", token, out, 200)
                     /\ UNCHANGED <<sites, downloads, images, files>>
    /\ UNCHANGED auth

\* PUT /pages/{page_id}
update_page(token, page_id, page_update) ==
    /\ Idle
    /\ \E out \in guard_implementor(token) :
          \/ refused("update_page", token, out)
          \/ /\ out.code = 0
             /\ LET db_page == page_get(page_id) IN
                IF db_page = {}
                THEN /\ answer("update_page", token, out, 404)
                     /\ UNCHANGED content
                ELSE IF /\ "slug" \in DOMAIN page_update
                        /\ page_slug_exists(page_update.slug, page_id)
                THEN /\ answer("update_page", token, out, 500)
                     /\ UNCHANGED content
                ELSE /\ pages' = (pages \ db_page)
                           \cup {setattrs(q, page_update) : q \in db_page}
                     /\ answer("update_page", token, out, 200)
                     /\ UNCHANGED <<sites, downloads, images, files, next_id>>
    /\ UNCHANGED auth

\* PATCH /pages/{page_id}/publish
publish_page(token, page_id) == page_patch("publish_page", token, page_id, TRUE)

\* PATCH /pages/{page_id}/unpublish
unpublish_page(token, page_id) == page_patch("unpublish_page", token, page_id, FALSE)

\* DELETE /pages/{page_id}
delete_page(token, page_id) ==
    /\ Idle
    /\ \E out \in guard_implementor(token) :
          \/ refused("delete_page", token, out)
          \/ /\ out.code = 0
             /\ LET db_page == page_get(page_id) IN
                IF db_page = {}
                THEN /\ answer("delete_page", token, out, 404)
                     /\ UNCHANGED content
                ELSE /\ pages' = pages \ db_page
                     /\ answer("delete_page", token, out, 200)
                     /\ UNCHANGED <<sites, downloads, images, files, next_id>>
    /\ UNCHANGED auth

\* The response of a route that declares no guard: whatever credentials
\* the request carries are not looked at.
answer_public(op, token, status_code, body) ==
    resp' = [Response(op, "", token, "",
                      handled(Outcome(0, {}, "", <<>>), status_code), NoSub)
                EXCEPT !.body = body]

\* HTTPException(status_code=404, detail="Pagina no encontrada")
page_not_found == [kind |-> "detail", detail |-> "Pagina no encontrada"]

\* CRUDPage.get_by_slug: the rows .first() chooses from.
page_get_by_slug(slug) == {q \in pages : q.slug = slug}

\* GET /pages/slug/{slug}
get_page_by_slug(token, slug) ==
    /\ Idle
    /\ LET found == page_get_by_slug(slug) IN
       IF found = {}
       THEN answer_public("get_page_by_slug", token, 404, page_not_found)
       ELSE \E page \in found :
               IF ~page.published
               THEN answer_public("get_page_by_slug", token, 404, page_not_found)
               ELSE answer_public("get_page_by_slug", token, 200,
                                  [kind |-> "page", page |-> page])
    /\ UNCHANGED content
    /\ UNCHANGED auth

\* GET /pages/{page_id}
get_page_by_id(token, page_id) ==
    /\ Idle
    /\ LET found == page_get(page_id) IN
       IF found = {}
       THEN answer_public("get_page_by_id", token, 404, page_not_found)
       ELSE \E page \in found :
               answer_public("get_page_by_id", token, 200,
                             [kind |-> "page", page |-> page])
    /\ UNCHANGED content
    /\ UNCHANGED auth

\* Pages.published is True: the identity test of a column object against
\* True, which Python evaluates before the filter is built.
published_is_True == FALSE

\* CRUDPage.get_paginated: the rows counted.
page_get_paginated == pages

\* CRUDPage.get_published: the rows counted under filter(published is True).
get_published == {q \in pages : published_is_True}

\* CRUDPage.count_published
count_published == Cardinality({q \in pages : published_is_True})

\* GET /pages without search: the rows of a page that holds them all.
list_pages(token, published_only) ==
    /\ Idle
    /\ \E out \in guard_implementor(token) :
          \/ refused("list_pages", token, out)
          \/ /\ out.code = 0
             /\ LET rows == IF published_only THEN get_published
                            ELSE page_get_paginated
                IN answer_body("list_pages", token, out, 200,
                               [kind |-> "listing", published_only |-> published_only,
                                response |-> rows, total |-> Cardinality(rows)])
             /\ UNCHANGED content
    /\ UNCHANGED auth

\* validate_image: the types allowed, and the largest size in bytes.
allowed_types == {"image/jpeg", "image/png", "image/gif", "image/webp"}

max_size == 5 * 1024 * 1024

\* A validate_image that lets every file through.
validate_image_any(file) == file.size >= 0

validate_image(file) ==
    /\ file.content_type \in allowed_types
    /\ ~(file.size # 0 /\ file.size > max_size)

UploadFiles ==
    {[filename |-> "a.png", content_type |-> "image/png", size |-> 1024],
     [filename |-> "a.html", content_type |-> "text/html", size |-> 1024],
     [filename |-> "big.png", content_type |-> "image/png", size |-> 6 * 1024 * 1024]}

\* save_upload_file: the n-th generated name, the path the file is written
\* to (UPLOAD_DIR / unique_filename) and the path that is returned.
unique_filename(n) == <<"uuid", n>>

written_path(n) == <<"app/static/uploads", unique_filename(n)>>

web_path(n) == <<"/static/uploads", unique_filename(n)>>

\* CRUDImage.get
image_get(id) == {m \in images : m.id = id}

\* CRUDImage.get_by_filename
get_by_filename(filename, site_id) ==
    {m \in images : m.filename = filename /\ m.site_id = site_id}

\* The path of the file in the upload directory, from the stored name.
backing_path_in_upload_dir(db_obj) == <<"app/static/uploads", db_obj.filename>>

\* Path(db_obj.file_path): the path delete_file looks at.
backing_path(db_obj) == db_obj.file_path

\* CRUDImage.delete_file: the file at db_obj.file_path is removed if there.
delete_file(db_obj) == files \ {backing_path(db_obj)}

\* A file that is found and that os.remove cannot remove.
remove_outcomes_unremovable(db_obj) == {"OSError"}

\* What file_path.exists() and os.remove can do: the path is not there;
\* it is removed; os.remove raises an OSError, which the handler of
\* FileExistsError does not catch.
remove_outcomes(db_obj) ==
    IF backing_path(db_obj) \in files THEN {"removed", "OSError"} ELSE {"absent"}

ImageUpdates == {[site_id |-> i] : i \in IdInputs}

\* POST /images/upload: an HTTPException of validate_image leaves the try
\* block through "except Exception"; the file is written before the row.
upload_image(token, file, site_id) ==
    /\ Idle
    /\ CanInsert
    /\ next_id.files <= MaxFiles
    /\ \E out \in guard_implementor(token) :
          \/ refused("upload_image", token, out)
          \/ /\ out.code = 0
             /\ IF ~validate_image(file)
                THEN /\ answer_body("upload_image", token, out, 500, file)
                     /\ UNCHANGED content
                ELSE LET n == next_id.files IN
                     /\ files' = files \cup {written_path(n)}
                     /\ IF \/ site_get(site_id) = {}
                           \/ get_by_filename(unique_filename(n), site_id) # {}
                        THEN /\ next_id' = [next_id EXCEPT !.files = @ + 1]
                             /\ answer_body("upload_image", token, out, 400, file)
                             /\ UNCHANGED images
                        ELSE /\ images' = images \cup
                                   {[id |-> next_id.images,
                                     filename |-> unique_filename(n),
                                     original_filename |-> file.filename,
                                     file_path |-> web_path(n),
                                     site_id |-> site_id]}
                             /\ next_id' = [next_id EXCEPT !.files = @ + 1,
                                                           !.images = @ + 1]
                             /\ answer_body("upload_image", token, out, 200, file)
                     /\ UNCHANGED <<sites, downloads, pages>>
    /\ UNCHANGED auth

\* PUT /images/{image_id}
update_image(token, image_id, image_update) ==
    /\ Idle
    /\ \E out \in guard_implementor(token) :
          \/ refused("update_image", token, out)
          \/ /\ out.code = 0
             /\ LET db_image == image_get(image_id) IN
                IF db_image = {}
                THEN /\ answer("update_image", token, out, 404)
                     /\ UNCHANGED content
                ELSE IF /\ "site_id" \in DOMAIN image_update
                        /\ site_get(image_update.site_id) = {}
                THEN /\ answer("update_image", token, out, 400)
                     /\ UNCHANGED content
                ELSE /\ images' = (images \ db_image)
                           \cup {setattrs(m, image_update) : m \in db_image}
                     /\ answer("update_image", token, out, 200)
                     /\ UNCHANGED <<sites, downloads, pages, files, next_id>>
    /\ UNCHANGED auth

\* POST /images/{image_id}/replace
replace_image_file(token, image_id, file) ==
    /\ Idle
    /\ next_id.files <= MaxFiles
    /\ \E out \in guard_implementor(token) :
          \/ refused("replace_image_file", token, out)
          \/ /\ out.code = 0
             /\ LET db_image == image_get(image_id) IN
                IF db_image = {}
                THEN /\ answer_body("replace_image_file", token, out, 404, file)
                     /\ UNCHANGED content
                ELSE IF ~validate_image(file)
                THEN /\ answer_body("replace_image_file", token, out, 500, file)
                     /\ UNCHANGED content
                ELSE LET n == next_id.files
                         old == CHOOSE m \in db_image : TRUE
                     IN
                     /\ files' = delete_file(old) \cup {written_path(n)}
                     /\ images' = (images \ db_image) \cup
                           {[old EXCEPT !.filename = unique_filename(n),
                                        !.file_path = web_path(n),
                                        !.original_filename = file.filename]}
                     /\ next_id' = [next_id EXCEPT !.files = @ + 1]
                     /\ answer_body("replace_image_file", token, out, 200, file)
                     /\ UNCHANGED <<sites, downloads, pages>>
    /\ UNCHANGED auth

\* DELETE /images/{image_id}: CRUDImage.delete, the file and then the row.
delete_image(token, image_id) ==
    /\ Idle
    /\ \E out \in guard_implementor(token) :
          \/ refused("delete_image", token, out)
          \/ /\ out.code = 0
             /\ LET db_image == image_get(image_id) IN
                IF db_image = {}
                THEN /\ answer("delete_image", token, out, 404)
                     /\ UNCHANGED content
                ELSE /\ files' = delete_file(CHOOSE m \in db_image : TRUE)
                     /\ images' = images \ db_image
                     /\ answer("delete_image", token, out, 200)
                     /\ UNCHANGED <<sites, downloads, pages, next_id>>
    /\ UNCHANGED auth

----------------------------------------------------------------------------
(* Requests running side by side *)
(* A worker runs one handler at a time, one database operation per step;  *)
(* the steps of different workers interleave. create_account is a plain   *)
(* def, run in the thread pool; the content handlers are async def and    *)
(* interleave between the worker processes of a deployment. A commit is   *)
(* one step: the database applies its unique indexes in it.               *)

Callers == {"w1", "w2"}

NoDetail == <<>>

NoCall ==
    [op |-> "none", pc |-> "idle", code |-> 0, arg |-> NoBody, id |-> NoId,
     detail |-> NoDetail]

NoCalls == [c \in Callers |-> NoCall]

\* The worker moves to its next step, or ends with a status code.
goto(c, op, pc, arg, id) ==
    calls' = [calls EXCEPT ![c] = [op |-> op, pc |-> pc, code |-> 0,
                                   arg |-> arg, id |-> id,
                                   detail |-> NoDetail]]

\* The handler returns (detail empty) or raises with a detail.
done(c, op, code, arg, id, detail) ==
    calls' = [calls EXCEPT ![c] = [op |-> op, pc |-> "done", code |-> code,
                                   arg |-> arg, id |-> id,
                                   detail |-> detail]]

\* str(e) of the ValueError save() raises for an IntegrityError.
IntegrityDetail(table) == <<"Error de integridad: ", "Duplicate entry", table>>

InFlight == {c \in Callers : calls[c].pc \notin {"idle", "done"}}

\* Rows inserted so far plus the handlers that may still insert one.
race_rows == rows_inserted + Cardinality(accounts) + Cardinality(InFlight)

CanBegin(c) == calls[c] = NoCall /\ race_rows < MaxRaceRows

\* The unique index `login' of account.account.
Account_login_unique(rows, row) == \A a \in rows : a.login # row.login

RaceEmails == {EmailOf[l] : l \in Logins}

AccountCreates ==
    {[login |-> l, password |-> "pw1", email |-> e] : l \in Logins, e \in RaceEmails}

\* create_account, first query: get_by_login.
register_get_by_login(c, account_in) ==
    /\ CanBegin(c)
    /\ IF get_by_login(account_in.login) # {}
       THEN done(c, "register", 400, account_in, NoId, <<"El login ya esta registrado">>)
       ELSE goto(c, "register", "get_by_email", account_in, NoId)
    /\ UNCHANGED <<accounts, gmlist, tokens, resp, probe, revoked, content>>

\* create_account, second query: get_by_email.
register_get_by_email(c) ==
    /\ calls[c].op = "register" /\ calls[c].pc = "get_by_email"
    /\ IF get_by_email(calls[c].arg.email) # {}
       THEN done(c, "register", 400, calls[c].arg, NoId,
                 <<"El email ya esta registrado">>)
       ELSE goto(c, "register", "save", calls[c].arg, NoId)
    /\ UNCHANGED <<accounts, gmlist, tokens, resp, probe, revoked, content>>

\* create_account, account.create: save() raises ValueError when the
\* unique index refuses the row, and the route has no handler for it.
register_save(c) ==
    /\ calls[c].op = "register" /\ calls[c].pc = "save"
    /\ LET account_in == calls[c].arg
           db_obj == new_account(account_in.login, account_in.password,
                                 account_in.email)
       IN IF Account_login_unique(accounts, db_obj)
          THEN /\ accounts' = accounts \cup {db_obj}
               /\ done(c, "register", 200, account_in, NoId, NoDetail)
          ELSE /\ done(c, "register", 500, account_in, NoId,
                       <<"Internal Server Error">>)
               /\ UNCHANGED accounts
    /\ UNCHANGED <<gmlist, tokens, resp, probe, revoked, content>>

\* create_site, CRUDSite.create: slug_exists.
create_site_slug_exists(c, obj_in) ==
    /\ CanBegin(c)
    /\ IF site_slug_exists(obj_in.slug, NoId)
       THEN done(c, "create_site", 400, obj_in, NoId,
                 <<"Site with slug ", obj_in.slug, " already exists">>)
       ELSE goto(c, "create_site", "save", obj_in, NoId)
    /\ UNCHANGED <<accounts, gmlist, tokens, resp, probe, revoked, content>>

\* A save of a Site into a table without the unique index.
create_site_save_unconstrained(c) ==
    /\ calls[c].op = "create_site" /\ calls[c].pc = "save"
    /\ sites' = sites \cup {new_site(next_id.sites, calls[c].arg)}
    /\ next_id' = [next_id EXCEPT !.sites = @ + 1]
    /\ done(c, "create_site", 200, calls[c].arg, next_id.sites, NoDetail)
    /\ UNCHANGED <<accounts, gmlist, tokens, resp, probe, revoked,
                   downloads, pages, images, files>>

\* create_site, CRUDSite.create: db_obj.save(). The ValueError of a refused
\* row is answered 400 by the route.
create_site_save(c) ==
    /\ calls[c].op = "create_site" /\ calls[c].pc = "save"
    /\ LET db_obj == new_site(next_id.sites, calls[c].arg) IN
       IF Site_slug_unique(sites, db_obj)
       THEN /\ sites' = sites \cup {db_obj}
            /\ next_id' = [next_id EXCEPT !.sites = @ + 1]
            /\ done(c, "create_site", 200, calls[c].arg, db_obj.id, NoDetail)
       ELSE /\ done(c, "create_site", 400, calls[c].arg, NoId,
                    IntegrityDetail("sites"))
            /\ UNCHANGED <<sites, next_id>>
    /\ UNCHANGED <<accounts, gmlist, tokens, resp, probe, revoked,
                   downloads, pages, images, files>>

RacePages == {p \in PageCreates : p.site_id \in {s.id : s \in sites}}

\* create_page: crud.slug_exists.
create_page_slug_exists(c, page) ==
    /\ CanBegin(c)
    /\ IF page_slug_exists(page.slug, NoId)
       THEN done(c, "create_page", 500, page, NoId,
                 <<"Error al crear pagina: ", "400: Ya existe una pagina con este slug">>)
       ELSE goto(c, "create_page", "save", page, NoId)
    /\ UNCHANGED <<accounts, gmlist, tokens, resp, probe, revoked, content>>

\* create_page: crud.create, whose save() no index of pages refuses.
create_page_save(c) ==
    /\ calls[c].op = "create_page" /\ calls[c].pc = "save"
    /\ LET page == calls[c].arg IN
       /\ pages' = pages \cup
             {[id |-> next_id.pages, slug |-> page.slug,
               published |-> page.published, site_id |-> page.site_id]}
       /\ next_id' = [next_id EXCEPT !.pages = @ + 1]
       /\ done(c, "create_page", 200, page, next_id.pages, NoDetail)
    /\ UNCHANGED <<accounts, gmlist, tokens, resp, probe, revoked,
                   sites, downloads, images, files>>

\* update_page: crud.get, then crud.slug_exists with exclude_id.
update_page_slug_exists(c, page_id, page_update) ==
    /\ calls[c] = NoCall
    /\ IF page_get(page_id) = {}
       THEN done(c, "update_page", 404, page_update, page_id,
                 <<"Pagina no encontrada">>)
       ELSE IF page_slug_exists(page_update.slug, page_id)
       THEN done(c, "update_page", 500, page_update, page_id,
                 <<"Error al actualizar pagina: ", "400: Ya existe una pagina con este slug">>)
       ELSE goto(c, "update_page", "save", page_update, page_id)
    /\ UNCHANGED <<accounts, gmlist, tokens, resp, probe, revoked, content>>

\* update_page: crud.update sets the fields and saves the row.
update_page_save(c) ==
    /\ calls[c].op = "update_page" /\ calls[c].pc = "save"
    /\ pages' = {IF q.id = calls[c].id THEN setattrs(q, calls[c].arg) ELSE q
                   : q \in pages}
    /\ done(c, "update_page", 200, calls[c].arg, calls[c].id, NoDetail)
    /\ UNCHANGED <<accounts, gmlist, tokens, resp, probe, revoked,
                   sites, downloads, images, files, next_id>>

\* The response is sent; the worker takes the next request.
Return(c) ==
    /\ calls[c].pc = "done"
    /\ calls' = [calls EXCEPT ![c] = NoCall]
    /\ UNCHANGED <<accounts, gmlist, tokens, resp, probe, revoked, content>>

----------------------------------------------------------------------------
(* The image routes step by step *)
(* One step per effect on the upload directory or on the table images;   *)
(* the process may die between any two of them.                           *)

\* File names generated so far plus the handlers that may still write one.
files_due ==
    (next_id.files - first_ids.files)
        + Cardinality({c \in Callers : calls[c].pc \in
                         {"validated", "delete_file"}})

\* Image rows inserted so far plus the uploads that may still insert one.
images_due ==
    rows_inserted
        + Cardinality({c \in Callers : calls[c].op = "upload_image"
                                          /\ calls[c].pc \notin {"idle", "done"}})

\* upload_image: validate_image(file).
upload_validate(c, file, site_id) ==
    /\ calls[c] = NoCall
    /\ images_due < MaxRows
    /\ files_due < MaxFiles
    /\ IF ~validate_image(file)
       THEN done(c, "upload_image", 500, [file |-> file], site_id,
                 <<"Error al subir imagen: ", "400: Tipo de archivo no permitido">>)
       ELSE goto(c, "upload_image", "validated", [file |-> file], site_id)
    /\ UNCHANGED <<accounts, gmlist, tokens, resp, probe, revoked, content>>

\* upload_image: save_upload_file(file) writes UPLOAD_DIR / unique_filename.
upload_save_file(c) ==
    /\ calls[c].op = "upload_image" /\ calls[c].pc = "validated"
    /\ LET n == next_id.files IN
       /\ files' = files \cup {written_path(n)}
       /\ next_id' = [next_id EXCEPT !.files = @ + 1]
       /\ goto(c, "upload_image", "create",
               [file |-> calls[c].arg.file, n |-> n], calls[c].id)
    /\ UNCHANGED <<accounts, gmlist, tokens, resp, probe, revoked,
                   sites, downloads, pages, images>>

\* upload_image: crud.create checks the site and the name, and saves.
upload_create(c) ==
    /\ calls[c].op = "upload_image" /\ calls[c].pc = "create"
    /\ LET n == calls[c].arg.n
           site_id == calls[c].id
       IN IF site_get(site_id) = {}
          THEN /\ done(c, "upload_image", 400, calls[c].arg, site_id,
                       <<"Site with ID ", site_id, " does not exist">>)
               /\ UNCHANGED <<images, next_id>>
          ELSE IF get_by_filename(unique_filename(n), site_id) # {}
          THEN /\ done(c, "upload_image", 400, calls[c].arg, site_id,
                       <<"Image with filename already exists for this site">>)
               /\ UNCHANGED <<images, next_id>>
          ELSE /\ images' = images \cup
                     {[id |-> next_id.images,
                       filename |-> unique_filename(n),
                       original_filename |-> calls[c].arg.file.filename,
                       file_path |-> web_path(n),
                       site_id |-> site_id]}
               /\ next_id' = [next_id EXCEPT !.images = @ + 1]
               /\ done(c, "upload_image", 200, calls[c].arg, site_id, NoDetail)
    /\ UNCHANGED <<accounts, gmlist, tokens, resp, probe, revoked,
                   sites, downloads, pages, files>>

\* replace_image_file: crud.get(image_id) and validate_image(file).
replace_validate(c, image_id, file) ==
    /\ calls[c] = NoCall
    /\ files_due < MaxFiles
    /\ LET db_image == image_get(image_id) IN
       IF db_image = {}
       THEN done(c, "replace_image_file", 404, [file |-> file], image_id,
                 <<"Imagen no encontrada">>)
       ELSE IF ~validate_image(file)
       THEN done(c, "replace_image_file", 500, [file |-> file], image_id,
                 <<"Error al reemplazar imagen: ", "400: Tipo de archivo no permitido">>)
       ELSE goto(c, "replace_image_file", "delete_file",
                 [file |-> file, db_image |-> CHOOSE m \in db_image : TRUE],
                 image_id)
    /\ UNCHANGED <<accounts, gmlist, tokens, resp, probe, revoked, content>>

\* replace_image_file: crud.delete_file(db_image).
replace_delete_file(c) ==
    /\ calls[c].op = "replace_image_file" /\ calls[c].pc = "delete_file"
    /\ \E o \in remove_outcomes(calls[c].arg.db_image) :
          IF o = "OSError"
          THEN /\ done(c, "replace_image_file", 500, calls[c].arg, calls[c].id,
                       <<"Error al reemplazar imagen: ", "OSError">>)
               /\ UNCHANGED files
          ELSE /\ files' = delete_file(calls[c].arg.db_image)
               /\ goto(c, "replace_image_file", "validated", calls[c].arg,
                       calls[c].id)
    /\ UNCHANGED <<accounts, gmlist, tokens, resp, probe, revoked,
                   sites, downloads, pages, images, next_id>>

\* replace_image_file: save_upload_file(file).
replace_save_file(c) ==
    /\ calls[c].op = "replace_image_file" /\ calls[c].pc = "validated"
    /\ LET n == next_id.files IN
       /\ files' = files \cup {written_path(n)}
       /\ next_id' = [next_id EXCEPT !.files = @ + 1]
       /\ goto(c, "replace_image_file", "update",
               [file |-> calls[c].arg.file, db_image |-> calls[c].arg.db_image,
                n |-> n], calls[c].id)
    /\ UNCHANGED <<accounts, gmlist, tokens, resp, probe, revoked,
                   sites, downloads, pages, images>>

\* replace_image_file: the fields set on db_image and crud.update, whose
\* save() updates the row of that id, and fails when it is gone.
replace_update(c) ==
    /\ calls[c].op = "replace_image_file" /\ calls[c].pc = "update"
    /\ IF image_get(calls[c].id) = {}
       THEN /\ done(c, "replace_image_file", 500, calls[c].arg, calls[c].id,
                    <<"Error al reemplazar imagen: ", "Error de base de datos: ">>)
            /\ UNCHANGED images
       ELSE /\ images' =
                 {IF m.id = calls[c].id
                  THEN [m EXCEPT !.filename = unique_filename(calls[c].arg.n),
                                 !.file_path = web_path(calls[c].arg.n),
                                 !.original_filename = calls[c].arg.file.filename]
                  ELSE m : m \in images}
            /\ done(c, "replace_image_file", 200, calls[c].arg, calls[c].id,
                    NoDetail)
    /\ UNCHANGED <<accounts, gmlist, tokens, resp, probe, revoked,
                   sites, downloads, pages, files, next_id>>

\* delete_image: crud.get(image_id).
delete_get(c, image_id) ==
    /\ calls[c] = NoCall
    /\ LET db_image == image_get(image_id) IN
       IF db_image = {}
       THEN done(c, "delete_image", 404, NoBody, image_id,
                 <<"Imagen no encontrada">>)
       ELSE goto(c, "delete_image", "delete_file",
                 [db_image |-> CHOOSE m \in db_image : TRUE], image_id)
    /\ UNCHANGED <<accounts, gmlist, tokens, resp, probe, revoked, content>>

\* delete_image: crud.delete, first self.delete_file(db_obj).
delete_delete_file(c) ==
    /\ calls[c].op = "delete_image" /\ calls[c].pc = "delete_file"
    /\ \E o \in remove_outcomes(calls[c].arg.db_image) :
          IF o = "OSError"
          THEN /\ done(c, "delete_image", 500, calls[c].arg, calls[c].id,
                       <<"Error al eliminar imagen: ", "OSError">>)
               /\ UNCHANGED files
          ELSE /\ files' = delete_file(calls[c].arg.db_image)
               /\ goto(c, "delete_image", "delete", calls[c].arg, calls[c].id)
    /\ UNCHANGED <<accounts, gmlist, tokens, resp, probe, revoked,
                   sites, downloads, pages, images, next_id>>

\* delete_image: crud.delete, then db_obj.delete().
delete_row(c) ==
    /\ calls[c].op = "delete_image" /\ calls[c].pc = "delete"
    /\ images' = {m \in images : m.id # calls[c].id}
    /\ done(c, "delete_image", 200, calls[c].arg, calls[c].id, NoDetail)
    /\ UNCHANGED <<accounts, gmlist, tokens, resp, probe, revoked,
                   sites, downloads, pages, files, next_id>>

\* The process dies in the middle of a handler: what is written stays.
Crash(c) ==
    /\ calls[c].pc \notin {"idle", "done"}
    /\ calls' = [calls EXCEPT ![c] = NoCall]
    /\ UNCHANGED <<accounts, gmlist, tokens, resp, probe, revoked, content>>

----------------------------------------------------------------------------
(* Storage failures: app/database.py save() and the routes' except clauses *)

\* What the database driver raises in session.commit().
DriverErrors ==
    {[kind |-> k, message |-> m] :
        k \in {"IntegrityError", "OperationalError", "SQLAlchemyError"},
        m \in {"Lost connection to MySQL server", "Too many connections"}}

\* BaseModel.save: the exception raised for the driver's exception e.
save_raises(e) ==
    IF e.kind = "IntegrityError"
    THEN [type |-> "ValueError", str |-> <<"Error de integridad: ", e.message>>]
    ELSE IF e.kind = "OperationalError"
    THEN [type |-> "RuntimeError", str |-> <<"Error de conexion: ", e.message>>]
    ELSE IF e.kind = "SQLAlchemyError"
    THEN [type |-> "RuntimeError", str |-> <<"Error de base de datos: ", e.message>>]
    ELSE [type |-> "RuntimeError", str |-> <<"Error inesperado: ", e.message>>]

\* The except clauses of a content route: the status code and the detail.
route_raises(prefix, exc) ==
    IF exc.type = "ValueError"
    THEN [code |-> 400, detail |-> exc.str]
    ELSE [code |-> 500, detail |-> <<prefix>> \o exc.str]

\* create_download, CRUDDownload.create: the site is looked up.
create_download_get_site(c, obj_in) ==
    /\ CanBegin(c)
    /\ IF site_get(obj_in.site_id) = {}
       THEN done(c, "create_download", 400, [obj_in |-> obj_in], NoId,
                 <<"Site with id ", obj_in.site_id, " not found">>)
       ELSE goto(c, "create_download", "save", [obj_in |-> obj_in], NoId)
    /\ UNCHANGED <<accounts, gmlist, tokens, resp, probe, revoked, content>>

\* create_download, CRUDDownload.create: db_obj.save() commits.
create_download_save(c) ==
    /\ calls[c].op = "create_download" /\ calls[c].pc = "save"
    /\ LET obj_in == calls[c].arg.obj_in IN
       /\ downloads' = downloads \cup
             {[id |-> next_id.downloads, published |-> obj_in.published,
               site_id |-> obj_in.site_id]}
       /\ next_id' = [next_id EXCEPT !.downloads = @ + 1]
       /\ done(c, "create_download", 200, calls[c].arg, next_id.downloads,
               NoDetail)
    /\ UNCHANGED <<accounts, gmlist, tokens, resp, probe, revoked,
                   sites, pages, images, files>>

\* create_download, CRUDDownload.create: db_obj.save() fails with e.
create_download_save_fails(c, e) ==
    /\ calls[c].op = "create_download" /\ calls[c].pc = "save"
    /\ LET r == route_raises("Error al crear descarga: ", save_raises(e)) IN
       done(c, "create_download", r.code,
            [obj_in |-> calls[c].arg.obj_in, e |-> e], NoId, r.detail)
    /\ UNCHANGED <<accounts, gmlist, tokens, resp, probe, revoked, content>>

----------------------------------------------------------------------------
(* The paginated listings of app/api/routes/game.py and guild.py *)

\* ceil(total / per_page), for the counts at hand where the float quotient
\* is exact enough.
ceil_div(total, per_page) == (total + per_page - 1) \div per_page

ListingEndpoints ==
    {"list_players", "list_guilds", "list_downloads", "list_pages",
     "list_sites", "list_images"}

\* total_pages as each route computes it: list_players and list_guilds
\* take the ceiling alone, the content listings answer 1 for no rows.
total_pages_of(endpoint, total, per_page) ==
    IF endpoint \in {"list_players", "list_guilds"}
    THEN ceil_div(total, per_page)
    ELSE IF total > 0 THEN ceil_div(total, per_page) ELSE 1

\* Query(1, ge=1) and Query(20, ge=1, le=100).
PageInputs == 1..4

PerPageInputs == {1, 20, 100}

\* A listing answered: query.count() found `total' rows.
list_endpoint(c, endpoint, total, page, per_page) ==
    /\ calls = NoCalls
    /\ LET total_pages == total_pages_of(endpoint, total, per_page) IN
       done(c, endpoint, 200,
            [total |-> total, page |-> page, per_page |-> per_page,
             total_pages |-> total_pages,
             has_next |-> page < total_pages,
             has_prev |-> page > 1],
            NoId, NoDetail)
    /\ UNCHANGED <<accounts, gmlist, tokens, resp, probe, revoked, content>>

----------------------------------------------------------------------------
(* The hasher called on its own *)

\* Raw passwords: those of the accounts, the empty one, one that differs
\* from another by case only, and None.
RawPasswords == Passwords \cup {"", "PW1", NoRawPassword}

\* make_password(raw_password)
make_password_call(c, raw_password) ==
    /\ calls[c] = NoCall
    /\ done(c, "make_password", 0,
            [raw_password |-> raw_password,
             mysql_hash |-> make_password(raw_password)], NoId, NoDetail)
    /\ UNCHANGED <<accounts, gmlist, tokens, resp, probe, revoked, content>>

\* validate_password(make_password(stored), raw_password)
validate_password_call(c, stored, raw_password) ==
    /\ calls[c] = NoCall
    /\ done(c, "validate_password", 0,
            [stored |-> stored, raw_password |-> raw_password,
             mysql_hash |-> make_password(stored),
             result |-> validate_password(make_password(stored), raw_password)],
            NoId, NoDetail)
    /\ UNCHANGED <<accounts, gmlist, tokens, resp, probe, revoked, content>>

----------------------------------------------------------------------------
(* Specifications *)

Init ==
    /\ accounts = {}
    /\ gmlist = {}
    /\ tokens = {}
    /\ resp = NoResponse
    /\ probe = NoProbe
    /\ revoked = {}
    /\ sites = {}
    /\ downloads = {}
    /\ pages = {}
    /\ images = {}
    /\ files = {}
    /\ next_id = [sites |-> 1, downloads |-> 1, pages |-> 1, images |-> 1, files |-> 1]
    /\ calls = NoCalls

Register == \E l \in Logins, p \in RegPasswords : create_account(l, p, EmailOf[l])

Login == \E l \in Logins, p \in Passwords : login_for_access_token(l, p)

ReadMe == \E t \in Credentials : read_account_me(t)

Ranked == \E r \in RequiredLevels, t \in Credentials : ranked_route(r, t)

Ban == \E l \in Logins, s \in Statuses : SetStatus(l, s)

Delete == \E l \in Logins : DeleteAccount(l)

Grant == \E l \in Logins, v \in StoredAuthority : GrantGM(l, v)

Relevel == \E l \in Logins, v \in StoredAuthority : SetGMLevel(l, v)

Revoke == \E l \in Logins : RevokeGM(l)

Next ==
    \/ Register
    \/ Login
    \/ ReadMe
    \/ Ranked
    \/ Ban
    \/ Delete
    \/ Grant
    \/ Relevel
    \/ Revoke
    \/ Reply

Spec == Init /\ [][Next]_vars

\* The hierarchy on its own: every triple of level values.
Probe == \E a \in StoredAuthority, b \in StoredAuthority, c \in StoredAuthority :
            CanAccessCall(a, b, c)

NextLevels == Probe

SpecLevels == Init /\ [][NextLevels]_vars

\* The content routes, called by the two registered logins and without a
\* token.
ContentCredentials == {c \in Credentials : c.kind \in {"missing", "valid"}}

\* Both logins registered with tokens issued, gm_bob holding IMPLEMENTOR and
\* alice GOD, and the first site created.
InitContent ==
    /\ accounts = {new_account(l, "pw1", EmailOf[l]) : l \in Logins}
    /\ gmlist = {[mAccount |-> "gm_bob", mAuthority |-> "IMPLEMENTOR"],
                  [mAccount |-> "alice", mAuthority |-> "GOD"]}
    /\ tokens = Logins
    /\ resp = NoResponse
    /\ probe = NoProbe
    /\ revoked = {}
    /\ sites = {[id |-> 1, slug |-> "home", is_active |-> TRUE,
                 maintenance_mode |-> FALSE]}
    /\ downloads = {}
    /\ pages = {}
    /\ images = {}
    /\ files = {}
    /\ next_id = first_ids
    /\ calls = NoCalls

CreateSite == \E t \in ContentCredentials, o \in SiteCreates : create_site(t, o)

UpdateSite == \E t \in ContentCredentials, i \in IdInputs, u \in SiteUpdates : update_site(t, i, u)

ActivateSite == \E t \in ContentCredentials, i \in IdInputs : activate_site(t, i)

DeactivateSite == \E t \in ContentCredentials, i \in IdInputs : deactivate_site(t, i)

EnableMaintenance == \E t \in ContentCredentials, i \in IdInputs : enable_maintenance_mode(t, i)

DisableMaintenance == \E t \in ContentCredentials, i \in IdInputs : disable_maintenance_mode(t, i)

DeleteSite == \E t \in ContentCredentials, i \in IdInputs : delete_site(t, i)

CreateDownload == \E t \in ContentCredentials, o \in DownloadCreates : create_download(t, o)

UpdateDownload == \E t \in ContentCredentials, i \in IdInputs, u \in DownloadUpdates : update_download(t, i, u)

PublishDownload == \E t \in ContentCredentials, i \in IdInputs : publish_download(t, i)

UnpublishDownload == \E t \in ContentCredentials, i \in IdInputs : unpublish_download(t, i)

DeleteDownload == \E t \in ContentCredentials, i \in IdInputs : delete_download(t, i)

CreatePage == \E t \in ContentCredentials, o \in PageCreates : create_page(t, o)

UpdatePage == \E t \in ContentCredentials, i \in IdInputs, u \in PageUpdates : update_page(t, i, u)

PublishPage == \E t \in ContentCredentials, i \in IdInputs : publish_page(t, i)

UnpublishPage == \E t \in ContentCredentials, i \in IdInputs : unpublish_page(t, i)

DeletePage == \E t \in ContentCredentials, i \in IdInputs : delete_page(t, i)

UploadImage == \E t \in ContentCredentials, f \in UploadFiles, i \in IdInputs : upload_image(t, f, i)

UpdateImage == \E t \in ContentCredentials, i \in IdInputs, u \in ImageUpdates : update_image(t, i, u)

ReplaceImage == \E t \in ContentCredentials, i \in IdInputs, f \in UploadFiles : replace_image_file(t, i, f)

DeleteImage == \E t \in ContentCredentials, i \in IdInputs : delete_image(t, i)

NextContent ==
    \/ CreateSite \/ UpdateSite \/ ActivateSite \/ DeactivateSite
    \/ EnableMaintenance \/ DisableMaintenance \/ DeleteSite
    \/ CreateDownload \/ UpdateDownload \/ PublishDownload
    \/ UnpublishDownload \/ DeleteDownload
    \/ CreatePage \/ UpdatePage \/ PublishPage \/ UnpublishPage \/ DeletePage
    \/ UploadImage \/ UpdateImage \/ ReplaceImage \/ DeleteImage
    \/ Reply

SpecContent == InitContent /\ [][NextContent]_vars

\* The account routes and both admin guards, from registered accounts
\* holding tokens issued under their first password.
NextAccount ==
    \/ Login
    \/ ReadMe
    \/ \E t \in Credentials : ranked_route(require_gm_level_implementor, t)
    \/ \E t \in Credentials : admin_route(t)
    \/ \E t \in Credentials, o \in Passwords, n \in Passwords :
          update_password_account_me(t, o, n)
    \/ Ban
    \/ Grant
    \/ Relevel
    \/ Revoke
    \/ Reply

SpecAccount == InitContent /\ [][NextAccount]_vars

\* The page routes, reads included, called by anyone.
NextPages ==
    \/ CreatePage \/ UpdatePage \/ PublishPage \/ UnpublishPage \/ DeletePage
    \/ \E t \in ContentCredentials, s \in Slugs : get_page_by_slug(t, s)
    \/ \E t \in ContentCredentials, i \in IdInputs : get_page_by_id(t, i)
    \/ \E t \in ContentCredentials, b \in BOOLEAN : list_pages(t, b)
    \/ Reply

SpecPages == InitContent /\ [][NextPages]_vars

\* Handlers running side by side, from one site and no account.
InitRace ==
    /\ accounts = {}
    /\ gmlist = {}
    /\ tokens = {}
    /\ resp = NoResponse
    /\ probe = NoProbe
    /\ revoked = {}
    /\ sites = {[id |-> 1, slug |-> "home", is_active |-> TRUE,
                 maintenance_mode |-> FALSE]}
    /\ downloads = {}
    /\ pages = {}
    /\ images = {}
    /\ files = {}
    /\ next_id = first_ids
    /\ calls = NoCalls

NextRace ==
    \/ \E c \in Callers, a \in AccountCreates : register_get_by_login(c, a)
    \/ \E c \in Callers : register_get_by_email(c)
    \/ \E c \in Callers : register_save(c)
    \/ \E c \in Callers, o \in SiteCreates : create_site_slug_exists(c, o)
    \/ \E c \in Callers : create_site_save(c)
    \/ \E c \in Callers, p \in RacePages : create_page_slug_exists(c, p)
    \/ \E c \in Callers : create_page_save(c)
    \/ \E c \in Callers, i \in IdInputs, u \in PageUpdates :
          update_page_slug_exists(c, i, u)
    \/ \E c \in Callers : update_page_save(c)
    \/ \E c \in Callers : Return(c)

SpecRace == InitRace /\ [][NextRace]_vars

\* The image routes step by step, from one site and no image.
NextImages ==
    \/ \E c \in Callers, f \in UploadFiles, i \in IdInputs : upload_validate(c, f, i)
    \/ \E c \in Callers : upload_save_file(c)
    \/ \E c \in Callers : upload_create(c)
    \/ \E c \in Callers, i \in IdInputs, f \in UploadFiles : replace_validate(c, i, f)
    \/ \E c \in Callers : replace_delete_file(c)
    \/ \E c \in Callers : replace_save_file(c)
    \/ \E c \in Callers : replace_update(c)
    \/ \E c \in Callers, i \in IdInputs : delete_get(c, i)
    \/ \E c \in Callers : delete_delete_file(c)
    \/ \E c \in Callers : delete_row(c)
    \/ \E c \in Callers : Crash(c)
    \/ \E c \in Callers : Return(c)

SpecImages == InitRace /\ [][NextImages]_vars

\* create_download side by side, with a database that may fail.
NextFailures ==
    \/ \E c \in Callers, o \in DownloadCreates : create_download_get_site(c, o)
    \/ \E c \in Callers : create_download_save(c)
    \/ \E c \in Callers, e \in DriverErrors : create_download_save_fails(c, e)
    \/ \E c \in Callers : Return(c)

SpecFailures == InitRace /\ [][NextFailures]_vars

\* The listings, over the row counts and the query parameters.
NextListing ==
    \/ \E c \in Callers, ep \in ListingEndpoints, total \in 0..MaxTotal,
          page \in PageInputs, per_page \in PerPageInputs :
          list_endpoint(c, ep, total, page, per_page)
    \/ \E c \in Callers : Return(c)

SpecListing == InitRace /\ [][NextListing]_vars

\* The hasher, over the raw passwords.
NextHasher ==
    \/ \E c \in Callers, p \in RawPasswords : make_password_call(c, p)
    \/ \E c \in Callers, p \in RawPasswords, q \in RawPasswords :
          validate_password_call(c, p, q)
    \/ \E c \in Callers : Return(c)

SpecHasher == InitRace /\ [][NextHasher]_vars

----------------------------------------------------------------------------
(* Properties *)

\* The order of the levels as the specification states it, lowest first.
StatedOrder ==
    <<"PLAYABLE", "PLAYER", "LOW_WIZARD", "HIGH_WIZARD", "GOD", "IMPLEMENTOR">>

Canonical == {StatedOrder[i] : i \in DOMAIN StatedOrder}

\* The stated rank of a level value: its place in the order, 0 for any other value.
Rank(level) ==
    IF level \in Canonical
    THEN (CHOOSE i \in DOMAIN StatedOrder : StatedOrder[i] = level) - 1
    ELSE 0

\* The request being answered carried a valid token of an existing account.
Authenticated ==
    /\ resp.token.kind = "valid"
    /\ \E a \in accounts : a.login = resp.token.sub

Caller == CHOOSE a \in accounts : a.login = resp.token.sub

CallerRecords == {g \in gmlist : g.mAccount = resp.token.sub}

GuardedOps == {"me", "ranked"}

\* C1: on a route requiring level R, an authenticated account whose
\* AdminRecord stores L is admitted iff rank(L) >= rank(R), and is
\* otherwise rejected with 403.
C1_RankedAdmission ==
    (resp.op = "ranked" /\ Authenticated) =>
        \A g \in CallerRecords :
            /\ (resp.code = 200) <=> (Rank(g.mAuthority) >= Rank(resp.required))
            /\ resp.code # 200 => resp.code = 403

\* gm_bob holds GOD and is rejected by a route requiring IMPLEMENTOR.
C1_Witness ==
    /\ resp.op = "ranked" /\ Authenticated
    /\ resp.token.sub = "gm_bob"
    /\ \E g \in CallerRecords : g.mAuthority = "GOD"
    /\ resp.required = "IMPLEMENTOR"
    /\ resp.code = 403

\* C2: for all pairs of the six levels can_access(a, b) = (rank(a) >= rank(b))
\* with the ranks 0..5 in the stated order; it is reflexive, and monotonic:
\* what passes a requirement passes every lower one.
C2_CanAccessIsRankOrder ==
    (probe.called /\ {probe.user_level, probe.required_level, probe.lower_level} \subseteq Canonical) =>
        /\ probe.rank = Rank(probe.user_level)
        /\ probe.result = (Rank(probe.user_level) >= Rank(probe.required_level))
        /\ probe.user_level = probe.required_level => probe.result
        /\ (probe.result /\ Rank(probe.lower_level) <= Rank(probe.required_level))
              => probe.result_lower

\* GOD against IMPLEMENTOR is refused, GOD against LOW_WIZARD is granted.
C2_Witness ==
    /\ probe.called
    /\ probe.user_level = "GOD" /\ probe.required_level = "IMPLEMENTOR"
    /\ probe.lower_level = "LOW_WIZARD"
    /\ ~probe.result /\ probe.result_lower

\* C3: a level value that is none of the six names has rank 0, and an
\* account whose AdminRecord stores such a value is rejected by every
\* route that requires PLAYER or more.
C3_UnknownLevelFailsClosed ==
    /\ \A g \in gmlist :
          g.mAuthority \notin Canonical => get_hierarchy_value(g.mAuthority) = 0
    /\ (resp.op = "ranked" /\ Authenticated) =>
          \A g \in CallerRecords :
              g.mAuthority \notin Canonical => resp.code = 403

\* A record that stores the integer 5 does not pass the PLAYER guard.
C3_Witness ==
    /\ resp.op = "ranked" /\ Authenticated
    /\ \E g \in CallerRecords : g.mAuthority = "int:5"
    /\ resp.required = "PLAYER"
    /\ resp.code = 403

C5_InactiveRejected ==
    (resp.op = "me" /\ Authenticated /\ Caller.status # "OK") =>
        /\ resp.code = 400
        /\ resp.steps = <<"jwt.decode", "get_by_login", "status">>

\* A banned account with a valid token asks for /account/me.
C5_Witness ==
    /\ resp.op = "me" /\ Authenticated
    /\ Caller.status = "BANNED"
    /\ resp.code = 400

\* C6 (as stated): the ranked guard answers 403 or admits only for an
\* account that is authenticated and whose status is OK.
C6_RankedOnlyForActive ==
    (resp.op = "ranked" /\ resp.code \in {200, 403} /\ resp.token.kind # "missing") =>
        Authenticated /\ Caller.status = "OK"

\* C7: the rows of sites, pages, downloads and images (and the stored
\* files) change only in the step of a request that carries the valid token
\* of an existing account whose gmlist record ranks at least IMPLEMENTOR,
\* and that went through the guard requiring IMPLEMENTOR.
C7_ContentChangesOnlyBehindGuard ==
    [][content' # content =>
          /\ resp'.required = "IMPLEMENTOR"
          /\ resp'.token.kind = "valid"
          /\ \E a \in accounts : a.login = resp'.token.sub
          /\ \E g \in gmlist :
                /\ g.mAccount = resp'.token.sub
                /\ Rank(g.mAuthority) >= Rank("IMPLEMENTOR")
          /\ \E i \in DOMAIN resp'.steps : resp'.steps[i] = "can_access"]_vars

\* gm_bob, IMPLEMENTOR, has uploaded an image: a row and a file are new.
C7_Witness ==
    /\ resp.op = "upload_image" /\ resp.code = 200
    /\ resp.token.sub = "gm_bob"
    /\ images # {} /\ files # {}

\* C8: the level a ranked request is judged by is the one the gmlist table
\* holds when the request is made: after a removal or a lowering the next
\* request of that login is admitted only if the present record suffices.
C8_FreshLookup ==
    (resp.op = "ranked" /\ Authenticated) =>
        /\ resp.admin_level =
              IF CallerRecords = {} THEN "PLAYABLE"
              ELSE (CHOOSE g \in CallerRecords : TRUE).mAuthority
        /\ resp.code = 200 =>
              \E g \in CallerRecords : Rank(g.mAuthority) >= Rank(resp.required)

\* A login whose grant was removed is refused by the next ranked request.
C8_Witness ==
    /\ resp.op = "ranked" /\ Authenticated
    /\ resp.token.sub \in revoked
    /\ CallerRecords = {}
    /\ resp.code = 403

\* C9 (as stated): a request whose token is missing, invalid, expired,
\* without subject, or whose subject matches no account ends 401 on every
\* guarded route, before any status check, authority lookup or handler.
C9_UnauthenticatedIs401 ==
    (resp.op \in GuardedOps /\ ~Authenticated) =>
        /\ resp.code = 401
        /\ \A i \in DOMAIN resp.steps :
              resp.steps[i] \in {"jwt.decode", "get_by_login"}

\* C10: login returns a token iff an account with that login exists, the
\* password verifies against its digest and its status is OK; otherwise
\* the answer is 401 without token.
C10_LoginIssuesToken ==
    resp.op = "login" =>
        LET good == \E a \in accounts :
                        /\ a.login = resp.token.sub
                        /\ a.password = make_password(resp.password)
                        /\ a.status = "OK"
        IN  /\ good => /\ resp.code = 200
                       /\ resp.access_token = resp.token.sub
                       /\ resp.token.sub \in tokens
            /\ ~good => /\ resp.code = 401
                        /\ resp.access_token = NoSub

\* A banned account logs in with its own password and gets 401.
C10_Witness ==
    /\ resp.op = "login"
    /\ \E a \in accounts :
          /\ a.login = resp.token.sub
          /\ a.password = make_password(resp.password)
          /\ a.status = "BANNED"
    /\ resp.code = 401

\* ---------------------------------------------------------------------
\* The handler of the route `op' has run in the request just answered.
HandlerRan(r, op) ==
    /\ r.op = op
    /\ Len(r.steps) > 0
    /\ r.steps[Len(r.steps)] = "handler"

SitesWithSlug(rows, slug) == {s \in rows : s.slug = slug}

\* C11: a create-site call whose slug is taken is answered 400 and
\* changes nothing; one whose slug is free is answered 200 and inserts
\* exactly one Site; either way exactly one Site has the slug afterwards,
\* and at no time do two Sites share a slug.
C11_CreateSiteOncePerSlug ==
    /\ [](\A a \in sites : \A b \in sites : a.slug = b.slug => a = b)
    /\ [][HandlerRan(resp', "create_site") =>
            LET slug == resp'.body.slug IN
            /\ IF SitesWithSlug(sites, slug) # {}
               THEN /\ resp'.code = 400
                    /\ content' = content
               ELSE /\ resp'.code = 200
                    /\ \E row \in sites' :
                          /\ row \notin sites
                          /\ row.slug = slug
                          /\ sites' = sites \cup {row}
                    /\ UNCHANGED <<downloads, pages, images, files>>
            /\ Cardinality(SitesWithSlug(sites', slug)) = 1]_vars

\* A create-site call has been refused for the slug an earlier call
\* created.
C11_Witness ==
    /\ HandlerRan(resp, "create_site")
    /\ resp.code = 400
    /\ resp.body.slug = "news"
    /\ \E s \in sites : s.slug = "news" /\ s.id = first_ids.sites

\* C12: with create-page and update-page handlers interleaving in any
\* way, no two Page rows have the same slug.
C12_PageSlugsUnique ==
    \A a \in pages : \A b \in pages : a.slug = b.slug => a.id = b.id

\* C13 as stated: nothing in storage stands behind the slug_exists
\* pre-check, so a create-site call that has passed it inserts its Site.
C13_PreCheckOnly ==
    [][\A c \in Callers :
          (/\ calls[c].op = "create_site" /\ calls[c].pc = "save"
           /\ calls'[c].pc = "done")
          => /\ calls'[c].code = 200
             /\ \E row \in sites' : row \notin sites /\ row.slug = calls[c].arg.slug]_vars

\* C13: the unique index of sites.slug stands behind the pre-check: with
\* create-site handlers interleaving in any way no two Sites share a
\* slug, and a save that follows another call's insert of the same slug
\* is refused, answered 400, and inserts nothing.
C13_SiteSlugsUniqueUnderRaces ==
    /\ [](\A a \in sites : \A b \in sites : a.slug = b.slug => a.id = b.id)
    /\ [][\A c \in Callers :
            (/\ calls[c].op = "create_site" /\ calls[c].pc = "save"
             /\ calls'[c].pc = "done")
            => IF SitesWithSlug(sites, calls[c].arg.slug) # {}
               THEN /\ calls'[c].code = 400
                    /\ calls'[c].detail = IntegrityDetail("sites")
                    /\ sites' = sites
               ELSE /\ calls'[c].code = 200
                    /\ \E row \in sites' :
                          /\ row \notin sites
                          /\ row.slug = calls[c].arg.slug
                          /\ sites' = sites \cup {row}]_vars

\* Two create-site calls for one slug both passed the pre-check; one has
\* inserted and the other was refused by the index.
C13_Witness ==
    \E c \in Callers, d \in Callers :
        /\ calls[c].op = "create_site" /\ calls[c].code = 200
        /\ calls[d].op = "create_site" /\ calls[d].code = 400
        /\ calls[d].detail = IntegrityDetail("sites")
        /\ calls[c].arg.slug = calls[d].arg.slug
        /\ Cardinality(SitesWithSlug(sites, calls[c].arg.slug)) = 1

\* A registration of worker c ends in this step.
RegistrationEnds(c) ==
    /\ calls[c].pc # "done"
    /\ calls'[c].op = "register" /\ calls'[c].pc = "done"

\* C14: with registrations interleaving in any way no two Accounts have
\* the same login, and a registration that ends while its login or its
\* email is taken is rejected with a client error and leaves the
\* accounts as they were.
C14_RegistrationRaces ==
    /\ [](\A a \in accounts : \A b \in accounts : a.login = b.login => a = b)
    /\ [][\A c \in Callers :
            (/\ RegistrationEnds(c)
             /\ \/ get_by_login(calls'[c].arg.login) # {}
                \/ get_by_email(calls'[c].arg.email) # {})
            => /\ calls'[c].code \in 400..499
               /\ accounts' = accounts]_vars

\* The routes that reject a request for its content.
ValidatingOps ==
    {"create_page", "update_page", "create_site", "update_site",
     "create_download", "update_download", "upload_image", "update_image",
     "replace_image_file"}

\* C15: with storage working, a request the handler does not carry out
\* (duplicate page or site slug, parent site that does not exist, upload
\* of a type or size that is not allowed) is answered 400 (404 when the
\* row addressed is missing), never 500.
C15_RejectionsAre400 ==
    (\E op \in ValidatingOps : HandlerRan(resp, op))
        => resp.code \in {200, 400, 404}

\* C16: an upload or a replacement whose content type is not one of
\* image/jpeg, image/png, image/gif, image/webp is rejected with nothing
\* done: no file is written, and on a replacement the old file stays and
\* the Image row keeps its fields.
C16_BadTypeNoEffect ==
    [][(/\ \/ HandlerRan(resp', "upload_image")
           \/ HandlerRan(resp', "replace_image_file")
        /\ resp'.body.content_type \notin allowed_types)
       => /\ resp'.code >= 400
          /\ files' = files
          /\ images' = images
          /\ content' = content]_vars

\* A replacement with a text/html file has been rejected; the image it
\* named is there with the file of its upload.
C16_Witness ==
    /\ HandlerRan(resp, "replace_image_file")
    /\ resp.body.content_type = "text/html"
    /\ resp.code = 500
    /\ \E m \in images :
          /\ m.file_path = web_path(1)
          /\ written_path(1) \in files

\* C17: a request that ends in a validation or conflict error has changed
\* nothing: the tables and the files are as before it; an upload naming
\* a site that does not exist leaves no file.
C17_FailedRequestChangesNothing ==
    [][(/\ \E op \in ValidatingOps : HandlerRan(resp', op)
        /\ resp'.code \in {400, 500})
       => UNCHANGED <<sites, downloads, pages, images, files>>]_vars

Deleting(c, pc) == calls[c].op = "delete_image" /\ calls[c].pc = pc

FailedInStorage(c) ==
    /\ calls[c].op = "create_download"
    /\ calls[c].pc = "done"
    /\ "e" \in DOMAIN calls[c].arg

\* C20: a storage failure is answered with a generic server error that
\* does not depend on the driver's message: two create_download requests
\* with the same body whose failures differ only in the message get the
\* same response, with code 500.
C20_FailureResponseIgnoresMessage ==
    \A c \in Callers : \A d \in Callers :
        (/\ FailedInStorage(c) /\ FailedInStorage(d)
         /\ calls[c].arg.obj_in = calls[d].arg.obj_in
         /\ calls[c].arg.e.kind = calls[d].arg.e.kind)
        => /\ calls[c].code = 500
           /\ calls[c].code = calls[d].code
           /\ calls[c].detail = calls[d].detail

\* The ids of the sites a step removes.
SitesDeleted == {s.id : s \in sites} \ {s.id : s \in sites'}

\* C21: after a delete-site answered 200 no Download, Page or Image of
\* that Site is left, and no row left carries the deleted Site's id.
C21_DeleteSiteCascades ==
    [][(HandlerRan(resp', "delete_site") /\ resp'.code = 200)
       => /\ SitesDeleted # {}
          /\ \A r \in downloads' \cup pages' \cup images' :
                r.site_id \notin SitesDeleted]_vars

\* The larger of two numbers.
Max(a, b) == IF a >= b THEN a ELSE b

\* ceil(total / per_page), by its definition: the least n with
\* n * per_page >= total.
Ceiling(total, per_page) ==
    CHOOSE n \in 0..total : n * per_page >= total
                              /\ \A k \in 0..total : k * per_page >= total => n <= k

\* C22: every paginated listing reports total_pages = max(1, ceil(total /
\* per_page)), has_next = (page < total_pages) and has_prev = (page > 1);
\* 45 rows by 20 make 3 pages, and no rows make 1 page.
C22_PaginationMetadata ==
    \A c \in Callers :
        calls[c].op \in ListingEndpoints =>
            LET r == calls[c].arg
                total_pages == Max(1, Ceiling(r.total, r.per_page))
            IN /\ r.total_pages = total_pages
               /\ r.has_next = (r.page < total_pages)
               /\ r.has_prev = (r.page > 1)

\* C23: a password verifies against its own digest, and two different
\* passwords have different digests, so neither verifies against the
\* digest of the other.
C23_VerifyIffSamePassword ==
    /\ \A c \in Callers :
          calls[c].op = "validate_password" =>
              calls[c].arg.result = (calls[c].arg.stored = calls[c].arg.raw_password)
    /\ \A c \in Callers : \A d \in Callers :
          (/\ calls[c].op = "make_password" /\ calls[d].op = "make_password"
           /\ calls[c].arg.raw_password # calls[d].arg.raw_password)
          => calls[c].arg.mysql_hash # calls[d].arg.mysql_hash

\* "PW1" was checked against the digest of "pw1" and refused, and "pw1"
\* was checked against it and accepted.
C23_Witness ==
    /\ calls["w1"].op = "validate_password"
    /\ calls["w1"].arg.stored = "pw1"
    /\ calls["w1"].arg.raw_password = "PW1"
    /\ ~calls["w1"].arg.result
    /\ calls["w2"].op = "validate_password"
    /\ calls["w2"].arg.stored = "pw1"
    /\ calls["w2"].arg.raw_password = "pw1"
    /\ calls["w2"].arg.result

UpperHexDigits ==
    {"0", "1", "2", "3", "4", "5", "6", "7", "8", "9", "A", "B", "C", "D", "E", "F"}

PointLookups == {"get_page_by_slug", "get_page_by_id"}

\* The caller of the request answered last passes the IMPLEMENTOR guard.
HoldsImplementorToken ==
    /\ resp.token.kind # "missing"
    /\ authority_checker(require_gm_level_implementor, resp.token).code = 0

\* C25: a point lookup (by slug or by id) hands an unpublished page only
\* to a caller holding a valid IMPLEMENTOR token; by slug, an unpublished
\* page is answered 404 exactly as a nonexistent one.
C25_UnpublishedPageNeedsImplementor ==
    /\ (resp.op \in PointLookups /\ resp.code = 200 /\ ~resp.body.page.published)
          => HoldsImplementorToken
    /\ (resp.op = "get_page_by_slug" /\ resp.code # 200)
          => (resp.code = 404 /\ resp.body = page_not_found)

\* The levels below IMPLEMENTOR a record can store, unknown ones included.
LowOrUnknownLevels == {"PLAYER", "god", "int:5"}

\* C26: the deprecated admin guard admits an authenticated account iff
\* gmlist holds a record for its login, whatever level the record stores
\* (403 otherwise); a record of level PLAYER or of an unknown level passes
\* it while the same credential fails the IMPLEMENTOR ranked guard.
C26_DeprecatedGuardAnyRecord ==
    (resp.op = "admin" /\ Authenticated) =>
        /\ resp.code = 200 <=> CallerRecords # {}
        /\ resp.code # 200 => resp.code = 403
        /\ (\E g \in CallerRecords : g.mAuthority \in LowOrUnknownLevels)
              => authority_checker(require_gm_level_implementor, resp.token).code = 403

C26_Witness ==
    /\ resp.op = "admin"
    /\ Authenticated
    /\ resp.code = 200
    /\ CallerRecords = {[mAccount |-> "alice", mAuthority |-> "god"]}
    /\ authority_checker(require_gm_level_implementor, resp.token).code = 403

PublishedPages == {q \in pages : q.published}

\* C27: a listing of pages with published_only set returns exactly the
\* published pages: its total is the number of rows with published = true
\* and every item is published; count_published is that number too.
C27_PublishedOnlyListsPublished ==
    /\ (resp.op = "list_pages" /\ resp.code = 200 /\ resp.body.published_only)
          => /\ resp.body.total = Cardinality(PublishedPages)
             /\ resp.body.response = PublishedPages
    /\ count_published = Cardinality(PublishedPages)

\* The step is the request `op`, and resp' is its record.
Requested(op) == Idle /\ resp'.op = op

\* The account rows of the subject of the request answered by the step.
SubjectRows == get_by_login(resp'.token.sub)

\* Login with the password the answered request carried, or with the new
\* password of its body, would be accepted as the tables are.
SentPasswordLogsIn == authenticate(resp.token.sub, resp.password) # {}

NewPasswordLogsIn == authenticate(resp.token.sub, resp.body.new_password) # {}

\* What C28 asks of one step.
PasswordChangeStep ==
    /\ (Requested("update_password") /\ resp'.code = 200) =>
          /\ \E a \in SubjectRows : validate_password(a.password, resp'.password)
          /\ NewPasswordLogsIn'
          /\ resp'.password # resp'.body.new_password
                => ~SentPasswordLogsIn'
    /\ (/\ Requested("update_password")
        /\ HandlerRan(resp', "update_password")
        /\ \A a \in SubjectRows : ~validate_password(a.password, resp'.password))
          => (resp'.code = 401 /\ accounts' = accounts)
    /\ Requested("login") =>
          (resp'.code = 200 <=> SentPasswordLogsIn')

\* C28: changing the password of the current account succeeds only when
\* the old password supplied verifies against the stored digest; after a
\* change, login with the new password succeeds and with the old one (when
\* different) fails; with a wrong old password the request ends 401 and
\* the stored digest is as before.
C28_PasswordChange == [][PasswordChangeStep]_vars

C28_Witness ==
    /\ resp.op = "login"
    /\ resp.code = 200
    /\ resp.token.sub = "alice"
    /\ resp.password = "pw2"
    /\ \E a \in get_by_login("alice") : a.password = make_password("pw2")

\* The credentials get_current_account accepts as the tables are.
AcceptedTokens == {t \in Credentials : get_current_account(t).code = 0}

\* Acceptance looks at the signature, the expiry and the subject's row.
AcceptanceRule ==
    \A t \in Credentials :
        t \in AcceptedTokens <=> (t.kind = "valid" /\ get_by_login(t.sub) # {})

\* What C29 asks of one step.
TokensSurviveStep ==
    /\ (Requested("update_password") /\ resp'.code = 200) =>
          /\ AcceptedTokens' = AcceptedTokens
          /\ resp'.token \in AcceptedTokens'
    /\ (Requested("me") /\ resp'.token \in AcceptedTokens) => resp'.code # 401

\* C29: the guard accepts a token on its signature, its expiry and the
\* existence of its subject's account only; a change of password leaves
\* every token accepted before it accepted, so it revokes none.
C29_PasswordChangeKeepsTokens == []AcceptanceRule /\ [][TokensSurviveStep]_vars

C29_Witness ==
    /\ resp.op = "update_password"
    /\ resp.code = 200
    /\ resp.password = "pw1"
    /\ resp.body.new_password = "pw2"
    /\ \A a \in get_by_login(resp.token.sub) : a.password = make_password("pw2")
    /\ get_current_account(resp.token).code = 0

\* C30: once an uploaded image has been deleted with 200, the file its
\* upload wrote is no longer in storage: the path kept in the row is the
\* path of the written file, so delete_file removes that file.
C30_DeletedImageFileGone ==
    \A c \in Callers :
        (calls[c].op = "delete_image" /\ calls[c].pc = "done" /\ calls[c].code = 200)
            => /\ backing_path(calls[c].arg.db_image)
                     = backing_path_in_upload_dir(calls[c].arg.db_image)
               /\ backing_path_in_upload_dir(calls[c].arg.db_image) \notin files

====
